---- MODULE Spec2Model ----
(***************************************************************************)
(* Model of backend/src/ml/train.py: the data preparation of the LSTM      *)
(* forecaster (prepare_lstm_data, train_aqi_forecaster), the daily         *)
(* aggregation and labelling of the health risk classifier                 *)
(* (prepare_health_risk_data) and the rule based disease scorer            *)
(* (calculate_disease_probabilities).                                      *)
(*                                                                         *)
(* Numbers are exact rationals <<n, d>> with d > 0, kept in lowest terms;  *)
(* the pandas/numpy NaN (an SQL NULL) is <<0, 0>>.  Python computes in     *)
(* binary floating point; the rationals are the values those floats        *)
(* approximate.                                                            *)
(***************************************************************************)
EXTENDS Integers, Sequences, FiniteSets, TLC

VARIABLES df, lookback, horizon, lstm_pc, sorted_df, scaler_params, windows,
          health_pc, daily_agg, health_out,
          train_pc, train_err, split_sizes, model_saved,
          exposure_data, score_pc, score_out

vars == <<df, lookback, horizon, lstm_pc, sorted_df, scaler_params, windows,
          health_pc, daily_agg, health_out,
          train_pc, train_err, split_sizes, model_saved,
          exposure_data, score_pc, score_out>>

lstm_vars   == <<lookback, horizon, lstm_pc, sorted_df, scaler_params, windows>>
health_vars == <<health_pc, daily_agg, health_out>>
train_vars  == <<train_pc, train_err, split_sizes, model_saved>>
score_vars  == <<exposure_data, score_pc, score_out>>

----------------------------------------------------------------------------
(* Bounds of the checked instances.                                        *)

MaxLen == 4
MaxLookback == 2
MaxHorizon == 2
MaxSlack == 2
MaxPm == 3
MaxHours == 3

----------------------------------------------------------------------------
(* Exact rational arithmetic.                                              *)

NaN == <<0, 0>>
IsNaN(q) == q[2] = 0

Abs(n) == IF n < 0 THEN -n ELSE n

RECURSIVE GCD(_, _)
GCD(a, b) == IF b = 0 THEN a ELSE GCD(b, a % b)

Reduce(q) ==
    IF q[2] = 0 THEN NaN
    ELSE LET s == IF q[2] < 0 THEN -1 ELSE 1
             g == GCD(Abs(q[1]), Abs(q[2]))
         IN  <<(s * q[1]) \div g, (s * q[2]) \div g>>

Num(n) == <<n, 1>>
Zero == Num(0)

RAdd(a, b) == IF IsNaN(a) \/ IsNaN(b) THEN NaN
              ELSE Reduce(<<a[1] * b[2] + b[1] * a[2], a[2] * b[2]>>)
RSub(a, b) == IF IsNaN(a) \/ IsNaN(b) THEN NaN
              ELSE Reduce(<<a[1] * b[2] - b[1] * a[2], a[2] * b[2]>>)
RMul(a, b) == IF IsNaN(a) \/ IsNaN(b) THEN NaN
              ELSE Reduce(<<a[1] * b[1], a[2] * b[2]>>)
RDiv(a, b) == IF IsNaN(a) \/ IsNaN(b) \/ b[1] = 0 THEN NaN
              ELSE Reduce(<<a[1] * b[2], a[2] * b[1]>>)
\* every comparison with NaN is false, as in IEEE 754
RLess(a, b) == ~IsNaN(a) /\ ~IsNaN(b) /\ a[1] * b[2] < b[1] * a[2]
RLeq(a, b)  == ~IsNaN(a) /\ ~IsNaN(b) /\ a[1] * b[2] <= b[1] * a[2]

----------------------------------------------------------------------------
(* The measurement frame returned by fetch_training_data.  A row carries   *)
(* the columns the two preparation functions read.                         *)

\* the columns given a missing value in the checked frames
NullableCols == {"iaq_score", "pressure_hpa"}

AqiBases == {40, 90, 140}
AqiSteps == {5}
Strides  == {12, 24}
NullRows == {0, 1}

DataParams == [base : AqiBases, step : AqiSteps, stride : Strides,
               nullCol : {"none"} \cup NullableCols,
               nullRow : NullRows]

Cell(c, t, p, v) == IF p.nullCol = c /\ p.nullRow = t THEN NaN ELSE Num(v)

\* reading number t (from 0) of device d
MkRow(d, t, p) ==
    LET at == p.stride * t
    IN  [device_id      |-> d,
         measured_at    |-> at,
         aqi_calculated |-> Num(p.base + p.step * t + 50 * (d - 1)),
         iaq_score      |-> Cell("iaq_score", t, p, 100 + 10 * t + d),
         temperature    |-> Cell("temperature", t, p, 20 + t),
         humidity       |-> Cell("humidity", t, p, 40 + 2 * t + d),
         pressure_hpa   |-> Cell("pressure_hpa", t, p, 1000 + d),
         hour_of_day    |-> Num(at % 24),
         day_of_week    |-> Num((at \div 24) % 7)]

Reverse(s) == [i \in 1..Len(s) |-> s[Len(s) + 1 - i]]

\* n1 readings of device 1 and n2 of device 2, in the query's order
\* (ORDER BY device_id, measured_at) or, when shuffled, in the opposite one
MkDf(n1, n2, p, shuffled) ==
    LET s == [i \in 1..n1 |-> MkRow(1, i - 1, p)] \o [i \in 1..n2 |-> MkRow(2, i - 1, p)]
    IN  IF shuffled THEN Reverse(s) ELSE s

----------------------------------------------------------------------------
(* prepare_lstm_data                                                       *)

feature_cols == <<"aqi_calculated", "iaq_score", "temperature", "humidity",
                  "pressure_hpa", "hour_of_day", "day_of_week">>

RowLess(a, b) == \/ a.device_id < b.device_id
                 \/ a.device_id = b.device_id /\ a.measured_at < b.measured_at

\* df.sort_values(['device_id', 'measured_at']): a stable sort, every row
\* goes to the position after the rows that sort before it
Rank(frame, i) ==
    1 + Cardinality({j \in 1..Len(frame) :
            \/ RowLess(frame[j], frame[i])
            \/ ~RowLess(frame[i], frame[j]) /\ j < i})

\* a sequence held as an array (the same sequence, its elements computed)
Array(s) == s \o <<>>

SortValues(frame) ==
    LET rank == Array([i \in 1..Len(frame) |-> Rank(frame, i)])
    IN  [k \in 1..Len(frame) |-> frame[CHOOSE i \in 1..Len(frame) : rank[i] = k]]

\* frame[cols].values
Values(frame, cols) ==
    [i \in 1..Len(frame) |-> [k \in 1..Len(cols) |-> frame[i][cols[k]]]]

FillNaSkipped(m) == m

FillNa(m) ==
    [i \in 1..Len(m) |-> [k \in 1..Len(m[i]) |-> IF IsNaN(m[i][k]) THEN Zero ELSE m[i][k]]]

Column(m, k) == [i \in 1..Len(m) |-> m[i][k]]

\* numpy nanmin / nanmax of a column: NaN entries are skipped
NanMin(col) ==
    LET S == {col[i] : i \in 1..Len(col)} \ {NaN}
    IN  IF S = {} THEN NaN ELSE CHOOSE x \in S : \A o \in S : RLeq(x, o)

NanMax(col) ==
    LET S == {col[i] : i \in 1..Len(col)} \ {NaN}
    IN  IF S = {} THEN NaN ELSE CHOOSE x \in S : \A o \in S : RLeq(o, x)

DataMin(m, nf) == [k \in 1..nf |-> NanMin(Column(m, k))]

DataMaxShifted(m, nf) == [k \in 1..nf |-> NanMax(Column(m, (k % nf) + 1))]

DataMax(m, nf) == [k \in 1..nf |-> NanMax(Column(m, k))]

\* MinMaxScaler.transform: x * scale_ + min_, scale_ = 1 / (max - min) and
\* a zero range is replaced by 1
Scale(x, lo, hi) ==
    LET range == RSub(hi, lo)
        div   == IF range = Zero THEN Num(1) ELSE range
    IN  RDiv(RSub(x, lo), div)

Transform(m, lo, hi) ==
    [i \in 1..Len(m) |-> [k \in 1..Len(m[i]) |-> Scale(m[i][k], lo[k], hi[k])]]

\* the dictionary dumped to models/scaler_params.json
ScalerParams(lo, hi) == [min |-> lo, max |-> hi, feature_cols |-> feature_cols]

\* df['device_id'].unique(): the ids in order of first appearance
Positions(frame) == [i \in 1..Len(frame) |-> i]

Unique(frame) ==
    LET first == SelectSeq(Positions(frame),
                    LAMBDA i : \A j \in 1..(i - 1) : frame[j].device_id # frame[i].device_id)
    IN  [k \in 1..Len(first) |-> frame[first[k]].device_id]

AllRows(frame, d) == Positions(frame)

\* df[df['device_id'] == device_id]: the positions of the device's rows
DeviceRows(frame, d) == SelectSeq(Positions(frame), LAMBDA i : frame[i].device_id = d)

\* Python's s[a:b] for 0 <= a, positions counted from 0
Slice(s, a, b) ==
    LET hi == IF b > Len(s) THEN Len(s) ELSE b
    IN  IF a >= hi THEN <<>> ELSE [j \in 1..(hi - a) |-> s[a + j]]

\* range(len(device_data) - lookback - forecast_horizon)
NumStarts(n, lb, h) == IF n - lb - h > 0 THEN n - lb - h ELSE 0

LabelRowsOverlapping(idx, i, lb, h) == Slice(idx, i + lb - 1, i + lb - 1 + h)

\* the rows of device_data[i+lookback : i+lookback+forecast_horizon]
LabelRows(idx, i, lb, h) == Slice(idx, i + lb, i + lb + h)

\* the rows of device_data[i : i+lookback]
FeatureRows(idx, i, lb) == Slice(idx, i, i + lb)

\* one (X, y) pair; src and lsrc record the positions in the sorted frame of
\* the rows the features and the labels were read from
Window(m, idx, i, lb, h) ==
    LET fr == FeatureRows(idx, i, lb)
        lr == LabelRows(idx, i, lb, h)
    IN  [X    |-> [j \in 1..Len(fr) |-> m[fr[j]]],
         y    |-> [j \in 1..Len(lr) |-> m[lr[j]][1]],
         src  |-> fr,
         lsrc |-> lr]

DeviceWindows(m, idx, lb, h) ==
    [w \in 1..NumStarts(Len(idx), lb, h) |-> Window(m, idx, w - 1, lb, h)]

RECURSIVE AllWindows(_, _, _, _, _)
AllWindows(m, frame, devs, lb, h) ==
    IF devs = <<>> THEN <<>>
    ELSE DeviceWindows(m, DeviceRows(frame, Head(devs)), lb, h)
         \o AllWindows(m, frame, Tail(devs), lb, h)

\* the whole of prepare_lstm_data; MinMaxScaler refuses a frame without rows
PrepareLstm(frame, lb, h) ==
    LET st     == Array(SortValues(frame))
        filled == Array(FillNa(Values(st, feature_cols)))
        lo     == Array(DataMin(filled, Len(feature_cols)))
        hi     == Array(DataMax(filled, Len(feature_cols)))
        scaled == Array(Transform(filled, lo, hi))
    IN  IF Len(frame) = 0
        THEN [pc |-> "ValueError", sorted |-> st, params |-> <<>>, windows |-> <<>>]
        ELSE [pc      |-> "done",
              sorted  |-> st,
              params  |-> ScalerParams(lo, hi),
              windows |-> AllWindows(scaled, st, Unique(st), lb, h)]

----------------------------------------------------------------------------
(* prepare_health_risk_data                                                *)

\* pd.to_datetime(df['measured_at']).dt.date, measured_at counted in hours
DateOf(r) == r.measured_at \div 24

\* df['date'] = ...: the caller's frame gains the column
WithDate(frame) ==
    [i \in 1..Len(frame) |->
        [c \in (DOMAIN frame[i]) \cup {"date"} |->
            IF c = "date" THEN DateOf(frame[i]) ELSE frame[i][c]]]

GroupKeys(frame) == {<<frame[i].device_id, frame[i].date>> : i \in 1..Len(frame)}

KeyLeq(a, b) == a[1] < b[1] \/ (a[1] = b[1] /\ a[2] <= b[2])

\* groupby sorts the group keys
RECURSIVE SortedKeys(_)
SortedKeys(S) ==
    IF S = {} THEN <<>>
    ELSE LET m == CHOOSE k \in S : \A o \in S : KeyLeq(k, o)
         IN  <<m>> \o SortedKeys(S \ {m})

GroupRows(frame, key) ==
    SelectSeq(frame, LAMBDA r : r.device_id = key[1] /\ r.date = key[2])

ColumnOf(rows, c) == [i \in 1..Len(rows) |-> rows[i][c]]

NonNaN(col) == SelectSeq(col, LAMBDA x : ~IsNaN(x))

RECURSIVE Sum(_)
Sum(col) == IF col = <<>> THEN Zero ELSE RAdd(Head(col), Sum(Tail(col)))

\* the groupby mean: NaN entries are left out, a group without a value is NaN
Mean(col) ==
    LET v == NonNaN(col)
    IN  IF v = <<>> THEN NaN ELSE RDiv(Sum(v), Num(Len(v)))

\* the groupby max, NaN entries left out
Max(col) == NanMax(col)

\* the groupby std (ddof = 1), held as its square: the sample variance.
\* Fewer than two values give NaN.
StdSquared(col) ==
    LET v  == NonNaN(col)
        mu == Mean(col)
        sq == [i \in 1..Len(v) |-> RMul(RSub(v[i], mu), RSub(v[i], mu))]
    IN  IF Len(v) < 2 THEN NaN ELSE RDiv(Sum(sq), Num(Len(v) - 1))

assign_risk_inclusive(row) ==
    IF RLeq(row.avg_aqi, Num(50)) THEN 0
    ELSE IF RLess(row.avg_aqi, Num(100)) THEN 1
    ELSE IF RLess(row.avg_aqi, Num(150)) THEN 2
    ELSE 3

assign_risk(row) ==
    IF RLess(row.avg_aqi, Num(50)) THEN 0
    ELSE IF RLess(row.avg_aqi, Num(100)) THEN 1
    ELSE IF RLess(row.avg_aqi, Num(150)) THEN 2
    ELSE 3

Aggregate(frame, key) ==
    LET g == GroupRows(frame, key)
    IN  [device_id    |-> key[1],
         date         |-> key[2],
         avg_aqi      |-> Mean(ColumnOf(g, "aqi_calculated")),
         max_aqi      |-> Max(ColumnOf(g, "aqi_calculated")),
         std_aqi      |-> StdSquared(ColumnOf(g, "aqi_calculated")),
         avg_iaq      |-> Mean(ColumnOf(g, "iaq_score")),
         avg_temp     |-> Mean(ColumnOf(g, "temperature")),
         avg_hum      |-> Mean(ColumnOf(g, "humidity")),
         avg_pressure |-> Mean(ColumnOf(g, "pressure_hpa"))]

\* daily_agg['risk_level'] = daily_agg.apply(assign_risk, axis=1)
WithRisk(agg) ==
    [i \in 1..Len(agg) |->
        [c \in (DOMAIN agg[i]) \cup {"risk_level"} |->
            IF c = "risk_level" THEN assign_risk(agg[i]) ELSE agg[i][c]]]

health_feature_cols == <<"avg_aqi", "max_aqi", "std_aqi", "avg_iaq",
                         "avg_temp", "avg_hum", "avg_pressure">>

\* the whole of prepare_health_risk_data
PrepareHealth(frame) ==
    LET dated == WithDate(frame)
        keys  == SortedKeys(GroupKeys(dated))
        agg   == WithRisk([i \in 1..Len(keys) |-> Aggregate(dated, keys[i])])
    IN  [frame        |-> dated,
         agg          |-> agg,
         X            |-> FillNa(Values(agg, health_feature_cols)),
         y            |-> [i \in 1..Len(agg) |-> agg[i].risk_level],
         feature_cols |-> health_feature_cols]

----------------------------------------------------------------------------
(* calculate_disease_probabilities                                         *)

Uncapped(q) == q

\* min(100, q)
Min100(q) == IF RLess(q, Num(100)) THEN q ELSE Num(100)

Round2Truncating(q) == {Reduce(<<(100 * q[1]) \div q[2], 100>>)}

\* round(q, 2).  A value halfway between two hundredths is computed by
\* Python from a float that may lie on either side of it: both neighbours
\* are possible results.
Round2(q) ==
    LET n == 100 * q[1]
        f == n \div q[2]
        r == n % q[2]
    IN  IF 2 * r < q[2] THEN {Reduce(<<f, 100>>)}
        ELSE IF 2 * r > q[2] THEN {Reduce(<<f + 1, 100>>)}
        ELSE {Reduce(<<f, 100>>), Reduce(<<f + 1, 100>>)}

AsthmaRisk(pm25, peak) ==
    LET asthma_base        == Min100(RMul(RDiv(Num(pm25), Num(35)), Num(50)))
        asthma_peak_factor == RAdd(Num(1), RMul(RDiv(Num(peak), Num(100)), <<1, 2>>))
    IN  Min100(RMul(asthma_base, asthma_peak_factor))

CopdRisk(pm25, hours) ==
    Min100(RAdd(RMul(RDiv(Num(pm25), Num(50)), Num(40)),
                RMul(RDiv(Num(hours), Num(720)), Num(30))))

CvdRisk(pm25, peak) ==
    Min100(RAdd(RMul(RDiv(Num(pm25), Num(40)), Num(35)),
                RMul(RDiv(Num(peak), Num(150)), Num(40))))

AllergyRisk(pm25) == Min100(RMul(RDiv(Num(pm25), Num(30)), Num(30)))

\* the dictionaries the function can return for an exposure record
DiseaseProbabilities(e) ==
    [asthma_risk         : Round2(AsthmaRisk(e.avg_pm25, e.peak_pm25)),
     copd_risk           : Round2(CopdRisk(e.avg_pm25, e.hours_unhealthy)),
     cardiovascular_risk : Round2(CvdRisk(e.avg_pm25, e.peak_pm25)),
     allergy_risk        : Round2(AllergyRisk(e.avg_pm25))]

PmVals    == (-1..MaxPm) \cup {35, 10000}
PeakVals  == (-1..MaxPm) \cup {50, 10000}
HourVals  == (-1..MaxHours) \cup {100, 720}
DayVals   == {5, 30}

Exposures == [avg_pm25 : PmVals, peak_pm25 : PeakVals,
              hours_unhealthy : HourVals, duration_days : DayVals]

----------------------------------------------------------------------------
(* State machines.                                                         *)

NoFile == <<>>

LstmIdle ==
    /\ lookback = 0 /\ horizon = 0 /\ lstm_pc = "idle" /\ sorted_df = <<>>
    /\ scaler_params = NoFile /\ windows = <<>>
HealthIdle == health_pc = "idle" /\ daily_agg = <<>> /\ health_out = <<>>
TrainIdle ==
    /\ train_pc = "idle" /\ train_err = "none" /\ split_sizes = <<0, 0>>
    /\ model_saved = FALSE
ScoreIdle == exposure_data = <<>> /\ score_pc = "idle" /\ score_out = <<>>

\* Spec: the two preparation functions called on a fetched frame
Init ==
    /\ \E n1 \in 0..MaxLen, n2 \in 0..MaxLen, p \in DataParams, sh \in BOOLEAN :
           df = MkDf(n1, n2, p, sh)
    /\ LstmIdle /\ HealthIdle /\ TrainIdle /\ ScoreIdle

\* prepare_lstm_data(df, lookback, forecast_horizon), start to return
PrepareLstmData ==
    /\ lstm_pc = "idle"
    /\ \E lb \in 1..MaxLookback, h \in 1..MaxHorizon :
          \E r \in {PrepareLstm(df, lb, h)} :
              /\ lookback' = lb
              /\ horizon' = h
              /\ lstm_pc' = r.pc
              /\ sorted_df' = r.sorted
              /\ scaler_params' = r.params
              /\ windows' = r.windows
    /\ UNCHANGED <<df, health_vars, train_vars, score_vars>>

\* prepare_health_risk_data(df), start to return, on a frame with rows
PrepareHealthRiskData ==
    /\ health_pc = "idle"
    /\ Len(df) > 0
    /\ \E r \in {PrepareHealth(df)} :
           /\ df' = r.frame
           /\ daily_agg' = r.agg
           /\ health_out' = [X |-> r.X, y |-> r.y, feature_cols |-> r.feature_cols]
           /\ health_pc' = "done"
    /\ UNCHANGED <<lstm_vars, train_vars, score_vars>>

Next == PrepareLstmData \/ PrepareHealthRiskData

Spec == Init /\ [][Next]_vars

----------------------------------------------------------------------------
(* train_aqi_forecaster                                                    *)

TrainLookback == 24
TrainHorizon == 24

TrainLens == {0} \cup ((TrainLookback + TrainHorizon - MaxSlack)
                          .. (TrainLookback + TrainHorizon + MaxSlack))

\* hourly readings
TrainParams == [base : {40}, step : {5}, stride : {1},
                nullCol : {"none", "iaq_score"}, nullRow : {0}]

InitTrain ==
    /\ df = <<>>
    /\ LstmIdle /\ HealthIdle /\ ScoreIdle
    /\ train_pc = "start" /\ train_err = "none" /\ split_sizes = <<0, 0>>
    /\ model_saved = FALSE

\* df = fetch_training_data(days=90)
FetchTrainingData ==
    /\ train_pc = "start"
    /\ \E n1 \in TrainLens, n2 \in TrainLens, p \in TrainParams :
           df' = MkDf(n1, n2, p, FALSE)
    /\ train_pc' = "fetched"
    /\ UNCHANGED <<lstm_vars, health_vars, train_err, split_sizes, model_saved, score_vars>>

\* X, y, scaler = prepare_lstm_data(df, lookback=24, forecast_horizon=24)
TrainPrepare ==
    /\ train_pc = "fetched"
    /\ \E r \in {PrepareLstm(df, TrainLookback, TrainHorizon)} :
           /\ lookback' = TrainLookback
           /\ horizon' = TrainHorizon
           /\ lstm_pc' = r.pc
           /\ sorted_df' = r.sorted
           /\ scaler_params' = r.params
           /\ windows' = r.windows
           /\ train_pc' = IF r.pc = "done" THEN "prepared" ELSE "failed"
           /\ train_err' = IF r.pc = "done" THEN "none" ELSE "ValueError in prepare_lstm_data"
    /\ UNCHANGED <<df, health_vars, split_sizes, model_saved, score_vars>>

\* train_test_split(X, y, test_size=0.2): n_test = ceil(0.2 * n), the rest is
\* the train set, and an empty train set is a ValueError of the library
TrainSplit ==
    /\ train_pc = "prepared"
    /\ LET n       == Len(windows)
           n_test  == (n + 4) \div 5
           n_train == n - n_test
       IN  IF n_train = 0
           THEN /\ train_pc' = "failed"
                /\ train_err' = "ValueError in train_test_split"
                /\ UNCHANGED split_sizes
           ELSE /\ train_pc' = "split"
                /\ split_sizes' = <<n_train, n_test>>
                /\ UNCHANGED train_err
    /\ UNCHANGED <<df, lstm_vars, health_vars, model_saved, score_vars>>

\* build_lstm_model(...) and model.fit(...)
TrainFit ==
    /\ train_pc = "split"
    /\ train_pc' = "fitted"
    /\ UNCHANGED <<df, lstm_vars, health_vars, train_err, split_sizes, model_saved, score_vars>>

\* model.evaluate(X_val, y_val)
TrainEvaluate ==
    /\ train_pc = "fitted"
    /\ train_pc' = "evaluated"
    /\ UNCHANGED <<df, lstm_vars, health_vars, train_err, split_sizes, model_saved, score_vars>>

\* model.save('models/aqi_lstm_model') and the return
TrainSave ==
    /\ train_pc = "evaluated"
    /\ train_pc' = "done"
    /\ model_saved' = TRUE
    /\ UNCHANGED <<df, lstm_vars, health_vars, train_err, split_sizes, score_vars>>

NextTrain ==
    \/ FetchTrainingData
    \/ TrainPrepare
    \/ TrainSplit
    \/ TrainFit
    \/ TrainEvaluate
    \/ TrainSave

SpecTrain == InitTrain /\ [][NextTrain]_vars

----------------------------------------------------------------------------
(* The scorer called on an exposure record.                                *)

InitScore ==
    /\ df = <<>>
    /\ LstmIdle /\ HealthIdle /\ TrainIdle /\ ScoreIdle

\* calculate_disease_probabilities(exposure_data): no path of the function
\* raises for a record that has the three keys
CalculateDiseaseProbabilities ==
    /\ score_pc = "idle"
    /\ \E e \in Exposures :
          /\ exposure_data' = e
          /\ score_out' \in DiseaseProbabilities(e)
    /\ score_pc' = "returned"
    /\ UNCHANGED <<df, lstm_vars, health_vars, train_vars>>

NextScore == CalculateDiseaseProbabilities

SpecScore == InitScore /\ [][NextScore]_vars

----------------------------------------------------------------------------
(* Properties.                                                             *)

DeviceIds == {1, 2}

Cols == 1..Len(feature_cols)

\* the positions of device d's rows in the sorted frame
SeriesRows(d) == {i \in 1..Len(sorted_df) : sorted_df[i].device_id = d}
SeriesLen(d) == Cardinality(SeriesRows(d))
FirstRow(d) == CHOOSE i \in SeriesRows(d) : \A j \in SeriesRows(d) : i <= j

\* the windows read from device d's rows
WindowsOf(d) ==
    {w \in 1..Len(windows) :
        Len(windows[w].src) > 0 /\ sorted_df[windows[w].src[1]].device_id = d}

\* the number of windows of the same device before window w
Offset(w) ==
    Cardinality({v \in 1..(w - 1) : \E d \in DeviceIds : {v, w} \subseteq WindowsOf(d)})

SeqToSet(s) == {s[j] : j \in 1..Len(s)}

\* the value of a cell of the sorted frame with a missing value read as 0
Filled(i, k) ==
    LET x == sorted_df[i][feature_cols[k]]
    IN  IF IsNaN(x) THEN Zero ELSE x

\* the normalised value of cell (i, k) under the persisted parameters
Normalised(i, k) ==
    LET lo == scaler_params.min[k]
        hi == scaler_params.max[k]
    IN  IF lo = hi THEN Zero ELSE RDiv(RSub(Filled(i, k), lo), RSub(hi, lo))

\* C1: a series of exactly lookback + horizon rows contributes exactly one
\* window, and a series of lookback + horizon - 1 rows contributes none.
C1_ExactFitGivesOneWindow ==
    lstm_pc = "done" =>
        \A d \in DeviceIds :
            /\ SeriesLen(d) = lookback + horizon => Cardinality(WindowsOf(d)) = 1
            /\ SeriesLen(d) = lookback + horizon - 1 => Cardinality(WindowsOf(d)) = 0

\* C2: every window has exactly lookback feature rows and exactly horizon
\* label values, and all the rows it was read from belong to one device.
C2_WindowShapeAndEntity ==
    lstm_pc = "done" =>
        \A w \in 1..Len(windows) :
            /\ Len(windows[w].X) = lookback
            /\ Len(windows[w].y) = horizon
            /\ Len(windows[w].src) = lookback
            /\ Len(windows[w].lsrc) = horizon
            /\ \A i, j \in SeqToSet(windows[w].src) \cup SeqToSet(windows[w].lsrc) :
                   sorted_df[i].device_id = sorted_df[j].device_id

C2_Witness ==
    /\ lstm_pc = "done"
    /\ WindowsOf(1) # {}
    /\ WindowsOf(2) # {}

\* C8: a series of N rows gives one window per start offset 0 .. N - lookback
\* - horizon - 1, in increasing order; the window at offset i holds rows
\* i .. i+lookback-1 with every feature column and, as label, column 0 (the
\* air-quality index) of rows i+lookback .. i+lookback+horizon-1.
C8_WindowOffsets ==
    lstm_pc = "done" =>
        /\ \A d \in DeviceIds :
               Cardinality(WindowsOf(d)) =
                   IF SeriesLen(d) - lookback - horizon > 0
                   THEN SeriesLen(d) - lookback - horizon ELSE 0
        /\ \A v, w \in 1..Len(windows) :
               (v < w /\ v \in WindowsOf(2)) => w \in WindowsOf(2)
        /\ \A d \in DeviceIds : \A w \in WindowsOf(d) :
               LET i == Offset(w)
                   f == FirstRow(d)
               IN  /\ windows[w].src = [j \in 1..lookback |-> f + i + j - 1]
                   /\ windows[w].lsrc = [j \in 1..horizon |-> f + i + lookback + j - 1]
                   /\ windows[w].X = [j \in 1..lookback |->
                                         [k \in Cols |-> Normalised(f + i + j - 1, k)]]
                   /\ windows[w].y = [j \in 1..horizon |->
                                         Normalised(f + i + lookback + j - 1, 1)]
                   /\ SeqToSet(windows[w].src) \cap SeqToSet(windows[w].lsrc) = {}
        /\ feature_cols[1] = "aqi_calculated"

C8_Witness ==
    /\ lstm_pc = "done"
    /\ \E d \in DeviceIds : Cardinality(WindowsOf(d)) >= 2

\* whether lo and hi are the least and the greatest filled value of column k
FittedOn(k, lo, hi) ==
    /\ \A i \in 1..Len(sorted_df) : RLeq(lo, Filled(i, k)) /\ RLeq(Filled(i, k), hi)
    /\ \E i \in 1..Len(sorted_df) : Filled(i, k) = lo
    /\ \E i \in 1..Len(sorted_df) : Filled(i, k) = hi

\* C9 (as stated): the persisted scaler record has the fields min, max and
\* feature_names, of one length and index-aligned, the feature at index 0
\* being the air-quality index.
C9_FieldsAsStated ==
    lstm_pc = "done" =>
        /\ DOMAIN scaler_params = {"min", "max", "feature_names"}
        /\ Len(scaler_params.min) = Len(scaler_params.feature_names)
        /\ Len(scaler_params.max) = Len(scaler_params.feature_names)

\* C9 (amended): the persisted scaler record has the fields min, max and
\* feature_cols; the three lists have one length, entry k of min and of max
\* are the fitted minimum and maximum of the column named by entry k of
\* feature_cols, and entry 0 of feature_cols is the air-quality index.
C9_ScalerRecordAligned ==
    lstm_pc = "done" =>
        /\ DOMAIN scaler_params = {"min", "max", "feature_cols"}
        /\ Len(scaler_params.min) = Len(scaler_params.feature_cols)
        /\ Len(scaler_params.max) = Len(scaler_params.feature_cols)
        /\ \A k \in 1..Len(scaler_params.feature_cols) :
               LET name == scaler_params.feature_cols[k]
                   lo   == scaler_params.min[k]
                   hi   == scaler_params.max[k]
                   val(i) == IF IsNaN(sorted_df[i][name]) THEN Zero ELSE sorted_df[i][name]
               IN  /\ \A i \in 1..Len(sorted_df) : RLeq(lo, val(i)) /\ RLeq(val(i), hi)
                   /\ \E i \in 1..Len(sorted_df) : val(i) = lo
                   /\ \E i \in 1..Len(sorted_df) : val(i) = hi
        /\ scaler_params.feature_cols[1] = "aqi_calculated"

C9_Witness ==
    /\ lstm_pc = "done"
    /\ Len(sorted_df) >= 2
    /\ \A k \in 1..4 : scaler_params.min[k] # scaler_params.max[k]

----------------------------------------------------------------------------
(* Missing values.                                                         *)

\* the rows of the frame that belong to the daily aggregate g
DayRows(g) ==
    {i \in 1..Len(df) : df[i].device_id = g.device_id /\ df[i].measured_at \div 24 = g.date}

Present(S, c) == {i \in S : ~IsNaN(df[i][c])}

\* the sum of column c over the rows S of the frame, a missing value adding 0
RECURSIVE Total(_, _)
Total(S, c) ==
    IF S = {} THEN Zero
    ELSE LET i == CHOOSE j \in S : TRUE
         IN  RAdd(IF IsNaN(df[i][c]) THEN Zero ELSE df[i][c], Total(S \ {i}, c))

\* the columns of X that are per-day means, with the frame column they average
MeanCols == {<<1, "aqi_calculated">>, <<4, "iaq_score">>, <<5, "temperature">>,
             <<6, "humidity">>, <<7, "pressure_hpa">>}

\* a missing cell of the frame is fitted and scaled as the value 0
LstmFilledBeforeFit ==
    lstm_pc = "done" =>
        /\ \A i \in 1..Len(sorted_df) : \A k \in Cols :
               IsNaN(sorted_df[i][feature_cols[k]]) =>
                   /\ RLeq(scaler_params.min[k], Zero)
                   /\ RLeq(Zero, scaler_params.max[k])
        /\ \A w \in 1..Len(windows) : \A j \in 1..Len(windows[w].X) : \A k \in Cols :
               /\ ~IsNaN(windows[w].X[j][k])
               /\ IsNaN(sorted_df[windows[w].src[j]][feature_cols[k]]) =>
                      windows[w].X[j][k] =
                          Scale(Zero, scaler_params.min[k], scaler_params.max[k])

----------------------------------------------------------------------------
(* Risk labels.                                                            *)

\* the step function of the claim on a rational n / d
Step(q) ==
    IF q[1] < 50 * q[2] THEN 0
    ELSE IF q[1] < 100 * q[2] THEN 1
    ELSE IF q[1] < 150 * q[2] THEN 2
    ELSE 3

----------------------------------------------------------------------------
(* The training run.                                                       *)

\* C3: when windowing yields no window, the run ends in an insufficient-data
\* failure of its own kind and the split, fit and save steps are not entered
\* with the empty set; windowing itself raises nothing for a short series.
C3_EmptySetIsInsufficientData ==
    /\ (lstm_pc = "done" /\ Len(windows) = 0 /\ train_pc \notin {"fetched", "prepared"})
           => (train_pc = "failed" /\ train_err = "InsufficientData")
    /\ (train_pc \in {"split", "fitted", "evaluated", "done"}) => Len(windows) > 0

----------------------------------------------------------------------------
(* Disease scores.                                                         *)

Negative(e) == e.avg_pm25 < 0 \/ e.peak_pm25 < 0 \/ e.hours_unhealthy < 0

Scores(o) == {o.asthma_risk, o.copd_risk, o.cardiovascular_risk, o.allergy_risk}

\* C4: a profile with a negative avg_pm25, peak_pm25 or hours_unhealthy is
\* rejected with an invalid-argument failure and no score set is returned.
C4_NegativeRejected ==
    (score_pc # "idle" /\ Negative(exposure_data)) => score_pc = "invalid_argument"

\* C5: for a profile without a negative value each of the four scores lies
\* in [0, 100], and avg_pm25 = 10000 gives exactly 100 for all four.
C5_ScoresBounded ==
    (score_pc = "returned" /\ ~Negative(exposure_data)) =>
        /\ \A x \in Scores(score_out) : RLeq(Zero, x) /\ RLeq(x, Num(100))
        /\ exposure_data.avg_pm25 = 10000 => Scores(score_out) = {Num(100)}

C5_Witness ==
    /\ score_pc = "returned"
    /\ ~Negative(exposure_data)
    /\ exposure_data.avg_pm25 = 10000
    /\ exposure_data.peak_pm25 = 10000

\* C10: avg_pm25 = 35, peak_pm25 = 50, hours_unhealthy = 100, duration_days
\* = 5 gives asthma_risk 62.5, copd_risk 32.17, cardiovascular_risk 43.96
\* and allergy_risk 35.0.
C10_ConcreteScenario ==
    (/\ score_pc = "returned"
     /\ exposure_data = [avg_pm25 |-> 35, peak_pm25 |-> 50,
                         hours_unhealthy |-> 100, duration_days |-> 5]) =>
        score_out = [asthma_risk         |-> Reduce(<<6250, 100>>),
                     copd_risk           |-> Reduce(<<3217, 100>>),
                     cardiovascular_risk |-> Reduce(<<4396, 100>>),
                     allergy_risk        |-> Reduce(<<3500, 100>>)]

C10_Witness ==
    /\ score_pc = "returned"
    /\ exposure_data = [avg_pm25 |-> 35, peak_pm25 |-> 50,
                        hours_unhealthy |-> 100, duration_days |-> 5]
    /\ score_out.copd_risk = Reduce(<<3217, 100>>)

====
